---- MODULE Spec2Model ----
(***************************************************************************)
(* One run of run_strategy (src/trading_strat.py) as a state machine: a    *)
(* backtrader Cerebro with the default broker feeds the bars of the price  *)
(* series, one after the other, to one of the three strategies, to the     *)
(* TradeAnalyzer and to the value observer.                                *)
(*                                                                         *)
(* What the script leaves to backtrader's defaults is modelled as          *)
(* backtrader does it:                                                     *)
(*  - Strategy.next is first called on the bar on which every indicator    *)
(*    of the strategy has a value (its minimum period); before that bar    *)
(*    prenext runs, which does nothing;                                    *)
(*  - self.buy / self.close create a Market order; the broker executes it  *)
(*    when the NEXT bar arrives, at that bar's open price, before next is  *)
(*    called for that bar (no cheat-on-close); an order created on the     *)
(*    last bar is never executed;                                          *)
(*  - a buy whose cost at the execution price exceeds the cash is          *)
(*    rejected as a whole (status Margin) and changes nothing;             *)
(*  - buy(size=0) creates no order; close() on a flat position creates no  *)
(*    order;                                                               *)
(*  - every bar, warm-up bars included, the observers record               *)
(*    broker.getvalue() = cash + position.size * close;                    *)
(*  - RSI is built with safediv=False: rs = maup / madown raises           *)
(*    ZeroDivisionError when the smoothed average of the down moves is 0;  *)
(*  - CrossOver compares the difference of its two inputs with their last  *)
(*    non-zero difference before the bar;                                  *)
(*  - the SharpeRatio analyzer works on the returns of the calendar years  *)
(*    and stores None when it cannot divide by their standard deviation.   *)
(*                                                                         *)
(* The script calls run_strategy once for each strategy over the same      *)
(* price file; SpecScript is the model of several calls in a row.          *)
(*                                                                         *)
(* Amounts are integers.  Money is counted in units of 10^4: the starting  *)
(* cash of 100000 is StartCash = 10 and a price of 3 stands for 30000.     *)
(* Share counts, costs, profits and every indicator comparison are         *)
(* unchanged by the choice of unit.  Indicator values are rationals; the   *)
(* model keeps their numerators over a common denominator and compares     *)
(* them exactly.                                                           *)
(***************************************************************************)
EXTENDS Integers, Sequences, FiniteSets, TLC

VARIABLES strategy,     \* the strategy_class of the run: "RSI", "BB" or "MA"
          pc,           \* where cerebro.run() stands
          closes,       \* data.close of the bars delivered so far
          open,         \* data.open[0] of the current bar
          cash,         \* broker.getcash()
          position,     \* the broker's position: [size, price]
          pending,      \* the order waiting in the broker
          lastExec,     \* what the broker did with the order on the current bar
          trades,       \* the trades backtrader has created, oldest first
          analyzer,     \* TradeAnalyzer: [trades, wins]
          equityCurve,  \* the value line of the broker observer, one entry a bar
          decision,     \* the call the last Strategy.next made
          report,       \* what run_strategy printed at the end
          fills,        \* the sides of the orders the broker completed, in order
          yearBars,     \* bars in a calendar year of the price file (0: not read)
          series,       \* the bars of the price file, kept where it is read again
          script,       \* the strategies the script calls run_strategy with
          outcomes      \* what the calls of run_strategy made so far printed

vars == <<strategy, pc, closes, open, cash, position, pending, lastExec,
          trades, analyzer, equityCurve, decision, report, fills, yearBars,
          series, script, outcomes>>

(* ------------------------------ bounds -------------------------------- *)

\* Bars of the price series.
MaxBars == 8

\* The strategies' periods, scaled down from the defaults of the source
\* (rsi_period 14, period 20, devfactor 2, fast 10, slow 30) so that the
\* warm-up and both signals of every rule fit into MaxBars bars.
rsi_period == 2
period == 3
devfactor == 1
fast == 2
slow == 3

\* Trade notifications the TradeAnalyzer is fed on its own (SpecTA).
MaxNotes == 5

(* --------------------------- program constants ------------------------ *)

rsi_overbought == 70
rsi_oversold == 30

\* cerebro.broker.setcash(100000), in units of 10^4.
StartCash == 10

\* Prices a bar may open and close at, in units of 10^4.
Prices == {3, 5, 11}

Strategies == {"RSI", "BB", "MA"}

(* ------------------------------ helpers ------------------------------- *)

Max(a, b) == IF a >= b THEN a ELSE b

RECURSIVE SumFrom(_, _, _)
\* s[lo] + ... + s[hi]
SumFrom(s, lo, hi) == IF lo > hi THEN 0 ELSE s[hi] + SumFrom(s, lo, hi - 1)

RECURSIVE SumSqFrom(_, _, _)
SumSqFrom(s, lo, hi) ==
    IF lo > hi THEN 0 ELSE s[hi] * s[hi] + SumSqFrom(s, lo, hi - 1)

(* ----------------------------- indicators ----------------------------- *)

\* The bar on which the strategy's indicators all have a value: RSI needs
\* one bar of lookback for the first move and rsi_period moves; the
\* Bollinger bands need period closes; CrossOver needs the slow average and
\* one bar before it.
\* (MinPeriodNoLookback leaves out the bar of lookback.)
MinPeriodNoLookback(s) ==
    CASE s = "RSI" -> rsi_period
      [] s = "BB"  -> period
      [] s = "MA"  -> slow

MinPeriod(s) ==
    CASE s = "RSI" -> rsi_period + 1
      [] s = "BB"  -> period
      [] s = "MA"  -> slow + 1

\* UpDay / DownDay of bar i (i >= 2): the move from the close before.
UpDay(cl, i) == Max(cl[i] - cl[i - 1], 0)
DownDay(cl, i) == Max(cl[i - 1] - cl[i], 0)

RECURSIVE UpSum(_, _)
UpSum(cl, n) == IF n < 2 THEN 0 ELSE UpDay(cl, n) + UpSum(cl, n - 1)

RECURSIVE DownSum(_, _)
DownSum(cl, n) == IF n < 2 THEN 0 ELSE DownDay(cl, n) + DownSum(cl, n - 1)

RECURSIVE Smoothed(_, _)
\* The smoothed moving averages (Wilder) of the up and the down moves at bar
\* n, as numerators over the common denominator den: the seed is the plain
\* average of the first rsi_period moves, then
\* av = (av * (rsi_period - 1) + move) / rsi_period.
Smoothed(cl, n) ==
    IF n <= MinPeriod("RSI")
    THEN [up |-> UpSum(cl, n), down |-> DownSum(cl, n), den |-> rsi_period]
    ELSE LET prev == Smoothed(cl, n - 1)
         IN  [up   |-> prev.up * (rsi_period - 1) + UpDay(cl, n) * prev.den,
              down |-> prev.down * (rsi_period - 1) + DownDay(cl, n) * prev.den,
              den  |-> prev.den * rsi_period]

\* rs = maup / madown has no value: float division by zero.
RSIDivisionByZero(cl) == Smoothed(cl, Len(cl)).down = 0

\* rsi = 100 - 100 / (1 + rs) compared with a level in 1..99:
\* rsi < level  <=>  (100 - level) * maup < level * madown.
RSIBelow(cl, level) ==
    LET ma == Smoothed(cl, Len(cl))
    IN  (100 - level) * ma.up < level * ma.down

RSIAbove(cl, level) ==
    LET ma == Smoothed(cl, Len(cl))
    IN  (100 - level) * ma.up > level * ma.down

\* period * (mean of the last period closes), and period^2 * their
\* population variance: period * sum of squares - (sum)^2.
BandSum(cl) == SumFrom(cl, Max(1, Len(cl) - period + 1), Len(cl))
BandVar(cl) ==
    period * SumSqFrom(cl, Max(1, Len(cl) - period + 1), Len(cl))
        - BandSum(cl) * BandSum(cl)

\* close < bot, bot = mid - devfactor * stddev
\*   <=>  period * (mid - close) > devfactor * sqrt(period^2 * variance).
CloseBelowBot(cl) ==
    LET d == BandSum(cl) - period * cl[Len(cl)]
    IN  d > 0 /\ d * d > devfactor * devfactor * BandVar(cl)

\* close > top, top = mid + devfactor * stddev.
CloseAboveTop(cl) ==
    LET d == period * cl[Len(cl)] - BandSum(cl)
    IN  d > 0 /\ d * d > devfactor * devfactor * BandVar(cl)

\* fast * slow * (fast_ma - slow_ma) at bar n.
MADiff(cl, n) ==
    slow * SumFrom(cl, Max(1, n - fast + 1), n)
        - fast * SumFrom(cl, Max(1, n - slow + 1), n)

RECURSIVE NonZeroDifference(_, _)
\* NonZeroDifference of CrossOver: the difference of the two averages, and
\* where it is 0 the last value before; the first value is the difference
\* itself, zero or not.
NonZeroDifference(cl, n) ==
    IF n <= slow \/ MADiff(cl, n) # 0
    THEN MADiff(cl, n)
    ELSE NonZeroDifference(cl, n - 1)

\* A crossover that looks at the bar before only.
CrossOverByPreviousBar(cl) ==
    LET n == Len(cl)
        up == MADiff(cl, n - 1) <= 0 /\ MADiff(cl, n) > 0
        down == MADiff(cl, n - 1) >= 0 /\ MADiff(cl, n) < 0
    IN  (IF up THEN 1 ELSE 0) - (IF down THEN 1 ELSE 0)

\* CrossOver = CrossUp - CrossDown at the last bar.
CrossOver(cl) ==
    LET n == Len(cl)
        up == NonZeroDifference(cl, n - 1) < 0 /\ MADiff(cl, n) > 0
        down == NonZeroDifference(cl, n - 1) > 0 /\ MADiff(cl, n) < 0
    IN  (IF up THEN 1 ELSE 0) - (IF down THEN 1 ELSE 0)

(* ----------------------------- strategies ----------------------------- *)

\* RSIStrategy.next without its test of the position.
RSINextNoPositionCheck(cl, pos) ==
    IF RSIBelow(cl, rsi_oversold) THEN "Buy"
    ELSE IF RSIAbove(cl, rsi_overbought) THEN "Close" ELSE "Hold"

\* RSIStrategy.next: the call it makes.
RSINext(cl, pos) ==
    IF pos.size = 0
    THEN (IF RSIBelow(cl, rsi_oversold) THEN "Buy" ELSE "Hold")
    ELSE (IF RSIAbove(cl, rsi_overbought) THEN "Close" ELSE "Hold")

\* BollingerBandsStrategy.next without its test of the position.
BBNextNoPositionCheck(cl, pos) ==
    IF CloseBelowBot(cl) THEN "Buy"
    ELSE IF CloseAboveTop(cl) THEN "Close" ELSE "Hold"

\* BollingerBandsStrategy.next.
BBNext(cl, pos) ==
    IF pos.size = 0
    THEN (IF CloseBelowBot(cl) THEN "Buy" ELSE "Hold")
    ELSE (IF CloseAboveTop(cl) THEN "Close" ELSE "Hold")

\* MovingAverageCrossoverStrategy.next with >= for > in the entry test.
MANextNonStrict(cl, pos) ==
    IF pos.size = 0
    THEN (IF CrossOver(cl) >= 0 THEN "Buy" ELSE "Hold")
    ELSE (IF CrossOver(cl) < 0 THEN "Close" ELSE "Hold")

\* MovingAverageCrossoverStrategy.next.
MANext(cl, pos) ==
    IF pos.size = 0
    THEN (IF CrossOver(cl) > 0 THEN "Buy" ELSE "Hold")
    ELSE (IF CrossOver(cl) < 0 THEN "Close" ELSE "Hold")

StrategyNext(s, cl, pos) ==
    CASE s = "RSI" -> RSINext(cl, pos)
      [] s = "BB"  -> BBNext(cl, pos)
      [] s = "MA"  -> MANext(cl, pos)

\* shares = int(cash / self.data.close[0])
Shares(csh, close) == csh \div close

NoOrder == [side |-> "None", size |-> 0, price |-> 0, bar |-> 0]

\* self.buy(size=shares): a Market order created at the bar's close; no
\* order when the size is 0.
BuyOrder(size, close, n) ==
    IF size # 0
    THEN [side |-> "Buy", size |-> size, price |-> close, bar |-> n]
    ELSE NoOrder

\* self.close(): a Market sell of the whole position; no order when flat.
CloseOrder(pos, close, n) ==
    IF pos.size > 0
    THEN [side |-> "Sell", size |-> pos.size, price |-> close, bar |-> n]
    ELSE NoOrder

(* ------------------------------- broker ------------------------------- *)

Flat == [size |-> 0, price |-> 0]

\* A broker that executes a buy whatever it costs.
ExecuteBuyNoCashCheck(order, o, csh, pos) ==
    [status   |-> "Completed",
     cash     |-> csh - order.size * o,
     position |-> [size  |-> pos.size + order.size,
                   price |-> (pos.size * pos.price + order.size * o)
                                 \div (pos.size + order.size)],
     pnl      |-> 0]

\* The default broker on a buy order when the next bar opens at o: the
\* order is refused (Margin) when the cash does not cover it at the price
\* it was created at or at o; otherwise it is executed in full at o.
ExecuteBuy(order, o, csh, pos) ==
    IF csh - order.size * order.price < 0 \/ csh - order.size * o < 0
    THEN [status |-> "Margin", cash |-> csh, position |-> pos, pnl |-> 0]
    ELSE [status   |-> "Completed",
          cash     |-> csh - order.size * o,
          position |-> [size  |-> pos.size + order.size,
                        price |-> (pos.size * pos.price + order.size * o)
                                      \div (pos.size + order.size)],
          pnl      |-> 0]

\* The default broker on the sell order of close(): executed in full at o.
ExecuteSell(order, o, csh, pos) ==
    [status   |-> "Completed",
     cash     |-> csh + order.size * o,
     position |-> IF pos.size = order.size
                  THEN Flat
                  ELSE [size |-> pos.size - order.size, price |-> pos.price],
     pnl      |-> (o - pos.price) * order.size]

BrokerExecute(order, o, csh, pos) ==
    IF order.side = "Buy"
    THEN ExecuteBuy(order, o, csh, pos)
    ELSE ExecuteSell(order, o, csh, pos)

\* A value that leaves the position out.
GetValueCashOnly(csh, pos, close) == csh

\* broker.getvalue(): cash plus the position at the bar's close.
GetValue(csh, pos, close) == csh + pos.size * close

(* ------------------------------- trades ------------------------------- *)

HasOpenTrade(ts) == Len(ts) > 0 /\ ts[Len(ts)].state = "Open"

\* A buy execution opens a trade, or adds to the open one.
TradeAfterBuy(ts, size, price, n) ==
    IF HasOpenTrade(ts)
    THEN [ts EXCEPT ![Len(ts)].size = @ + size]
    ELSE Append(ts, [entryBar |-> n, entryPrice |-> price, exitBar |-> 0,
                     exitPrice |-> 0, size |-> size, profitAndLoss |-> 0,
                     state |-> "Open"])

\* A sell execution that leaves the trade open.
TradeAfterSellLeftOpen(ts, pos, pnl, price, n) == ts

\* A sell execution that leaves the position flat closes the open trade.
TradeAfterSell(ts, pos, pnl, price, n) ==
    IF HasOpenTrade(ts) /\ pos.size = 0
    THEN [ts EXCEPT ![Len(ts)].state = "Closed",
                    ![Len(ts)].exitBar = n,
                    ![Len(ts)].exitPrice = price,
                    ![Len(ts)].profitAndLoss = pnl]
    ELSE ts

(* --------------------------- TradeAnalyzer ---------------------------- *)

\* notify_trade without its test of trade.isclosed.
NotifyTradeAnyState(a, isclosed, pnl) ==
    [trades |-> a.trades + 1,
     wins   |-> IF pnl > 0 THEN a.wins + 1 ELSE a.wins]

\* TradeAnalyzer.notify_trade
NotifyTrade(a, isclosed, pnl) ==
    IF isclosed
    THEN [trades |-> a.trades + 1,
          wins   |-> IF pnl > 0 THEN a.wins + 1 ELSE a.wins]
    ELSE a

\* TradeAnalyzer.get_analysis; win_rate is the quotient num / den.
GetAnalysis(a) ==
    [total_trades |-> a.trades,
     wins         |-> a.wins,
     win_rate     |-> IF a.trades > 0
                      THEN [num |-> a.wins, den |-> a.trades]
                      ELSE [num |-> 0, den |-> 1]]

(* ------------------------------ the run ------------------------------- *)

NoExec == [status |-> "None", side |-> "None", size |-> 0, price |-> 0,
           bar |-> 0, createdBar |-> 0, createdPrice |-> 0,
           cashBefore |-> 0, sizeBefore |-> 0]

NoReport == [printed |-> FALSE]

Hold == [call |-> "Hold", size |-> 0]

Init ==
    /\ strategy \in Strategies
    /\ pc = "next_bar"
    /\ closes = <<>>
    /\ open = 0
    /\ cash = StartCash
    /\ position = Flat
    /\ pending = NoOrder
    /\ lastExec = NoExec
    /\ trades = <<>>
    /\ analyzer = [trades |-> 0, wins |-> 0]
    /\ equityCurve = <<>>
    /\ decision = Hold
    /\ report = NoReport
    /\ fills = <<>>
    /\ yearBars = 0
    /\ series = <<>>
    /\ script = <<strategy>>
    /\ outcomes = <<>>

\* The feed delivers the next bar and the indicators take their value for
\* it; the run dies here when the RSI cannot be computed.
Advance ==
    /\ pc = "next_bar"
    /\ Len(closes) < MaxBars
    /\ \E o \in Prices, c \in Prices :
          /\ open' = o
          /\ closes' = Append(closes, c)
    /\ pc' = IF /\ strategy = "RSI"
                /\ Len(closes') >= MinPeriod(strategy)
                /\ RSIDivisionByZero(closes')
             THEN "failed"
             ELSE "broker"
    /\ UNCHANGED <<strategy, cash, position, pending, lastExec, trades,
                   analyzer, equityCurve, decision, report>>
    /\ UNCHANGED <<fills, yearBars, series, script, outcomes>>

\* The broker handles the order created on the bar before, at this bar's
\* open; the trade it opens or closes is notified to the TradeAnalyzer.
BrokerNext ==
    /\ pc = "broker"
    /\ pc' = "strategy"
    /\ pending' = NoOrder
    /\ IF pending.side = "None"
       THEN /\ lastExec' = NoExec
            /\ UNCHANGED <<cash, position, trades, analyzer, fills>>
       ELSE LET n == Len(closes)
                res == BrokerExecute(pending, open, cash, position)
                done == res.status = "Completed"
                ts == IF ~done THEN trades
                      ELSE IF pending.side = "Buy"
                      THEN TradeAfterBuy(trades, pending.size, open, n)
                      ELSE TradeAfterSell(trades, res.position, res.pnl,
                                          open, n)
                justopened == done /\ pending.side = "Buy"
                                   /\ ~HasOpenTrade(trades)
                isclosed == done /\ pending.side = "Sell"
                                 /\ HasOpenTrade(trades)
                                 /\ ~HasOpenTrade(ts)
            IN  /\ cash' = res.cash
                /\ position' = res.position
                /\ trades' = ts
                /\ analyzer' = IF justopened \/ isclosed
                               THEN NotifyTrade(analyzer, isclosed, res.pnl)
                               ELSE analyzer
                /\ lastExec' = [status |-> res.status, side |-> pending.side,
                                size |-> pending.size, price |-> open,
                                bar |-> n, createdBar |-> pending.bar,
                                createdPrice |-> pending.price,
                                cashBefore |-> cash,
                                sizeBefore |-> position.size]
                /\ fills' = IF done THEN Append(fills, pending.side)
                                    ELSE fills
    /\ UNCHANGED <<strategy, closes, open, equityCurve, decision, report>>
    /\ UNCHANGED <<yearBars, series, script, outcomes>>

\* The strategy's turn: prenext (nothing) during the warm-up, next after.
StrategyStep ==
    /\ pc = "strategy"
    /\ pc' = "observe"
    /\ LET n == Len(closes)
           close == closes[n]
           call == IF n >= MinPeriod(strategy)
                   THEN StrategyNext(strategy, closes, position)
                   ELSE "Hold"
       IN  CASE call = "Buy" ->
                  /\ decision' = [call |-> "Buy", size |-> Shares(cash, close)]
                  /\ pending' = BuyOrder(Shares(cash, close), close, n)
             [] call = "Close" ->
                  /\ decision' = [call |-> "Close", size |-> position.size]
                  /\ pending' = CloseOrder(position, close, n)
             [] OTHER ->
                  /\ decision' = Hold
                  /\ pending' = pending
    /\ UNCHANGED <<strategy, closes, open, cash, position, lastExec, trades,
                   analyzer, equityCurve, report>>
    /\ UNCHANGED <<fills, yearBars, series, script, outcomes>>

\* The observers record the portfolio value of the bar.
Observe ==
    /\ pc = "observe"
    /\ pc' = "next_bar"
    /\ equityCurve' = Append(equityCurve,
                             GetValue(cash, position, closes[Len(closes)]))
    /\ UNCHANGED <<strategy, closes, open, cash, position, pending, lastExec,
                   trades, analyzer, decision, report>>
    /\ UNCHANGED <<fills, yearBars, series, script, outcomes>>

(* ------------------------ SharpeRatio analyzer ------------------------ *)

\* The SharpeRatio analyzer is added with its defaults: it works on the
\* returns of the calendar years (timeframe Years) that its TimeReturn
\* sub-analyzer collects, with the population standard deviation.  The
\* dates of the price file matter to nothing else in a run; the model
\* takes years of yearBars bars, the last one possibly shorter.
YearBars == {2, MaxBars}

\* The portfolio value the first year starts from and the value on the
\* last bar of every year, up to bar n.
RECURSIVE YearValues(_, _, _)
YearValues(eq, bpy, n) ==
    IF n = 0
    THEN <<StartCash>>
    ELSE Append(YearValues(eq, bpy, ((n - 1) \div bpy) * bpy), eq[n])

\* TimeReturn: the return of a year is value / value_start - 1, here the
\* quotient num / den.
YearReturns(v) ==
    [k \in 1..(Len(v) - 1) |-> [num |-> v[k + 1] - v[k], den |-> v[k]]]

SameReturn(r1, r2) == r1.num * r2.den = r2.num * r1.den

\* The standard deviation of the returns is 0: they are all the same.
ZeroDeviation(r) == \A i, j \in 1..Len(r) : SameReturn(r[i], r[j])

\* The values the line "Sharpe Ratio:" can show: Python's None, the text
\* N/A, or a number (kept here as the returns it is the ratio of).
None == [is |-> "None", of |-> <<>>]
NotAvailableText == [is |-> "N/A", of |-> <<>>]
Ratio(r) == [is |-> "float", of |-> r]

\* SharpeRatio.get_analysis: the key sharperatio is always there; it holds
\* None when there is no return or when the division by the standard
\* deviation fails, and the ratio otherwise.
SharpeAnalysis(eq, bpy) ==
    LET r == YearReturns(YearValues(eq, bpy, Len(eq)))
    IN  [sharperatio |-> IF Len(r) = 0 \/ ZeroDeviation(r)
                         THEN None
                         ELSE Ratio(r)]

\* dict.get(key, default)
Get(d, key, default) == IF key \in DOMAIN d THEN d[key] ELSE default

\* What run_strategy prints after cerebro.run(): the final value, the
\* Sharpe ratio and the TradeAnalyzer's analysis.
PrintReport(a, value, sharpe) ==
    [printed       |-> TRUE,
     startingValue |-> StartCash,
     finalValue    |-> value,
     sharpeRatio   |-> Get(sharpe, "sharperatio", NotAvailableText),
     totalTrades   |-> GetAnalysis(a).total_trades,
     wins          |-> GetAnalysis(a).wins,
     winRate       |-> GetAnalysis(a).win_rate]

\* The series is exhausted: cerebro.run() returns and run_strategy prints.
Finish ==
    /\ pc = "next_bar"
    /\ Len(closes) >= 1
    /\ pc' = "done"
    /\ \E bpy \in YearBars :
          /\ yearBars' = bpy
          /\ report' = PrintReport(analyzer,
                                   GetValue(cash, position,
                                            closes[Len(closes)]),
                                   SharpeAnalysis(equityCurve, bpy))
    /\ UNCHANGED <<strategy, closes, open, cash, position, pending, lastExec,
                   trades, analyzer, equityCurve, decision>>
    /\ UNCHANGED <<fills, series, script, outcomes>>

Next == Advance \/ BrokerNext \/ StrategyStep \/ Observe \/ Finish

Spec == Init /\ [][Next]_vars

(* ------------------- the TradeAnalyzer on its own --------------------- *)

\* The profits a notified trade may carry.
Pnls == {-2, 0, 3}

NotifiedTrade(isclosed, pnl) ==
    [entryBar |-> 0, entryPrice |-> 0, exitBar |-> 0, exitPrice |-> 0,
     size |-> 0, profitAndLoss |-> pnl,
     state |-> IF isclosed THEN "Closed" ELSE "Open"]

InitTA ==
    /\ strategy = "RSI"
    /\ pc = "analyzer"
    /\ closes = <<>>
    /\ open = 0
    /\ cash = StartCash
    /\ position = Flat
    /\ pending = NoOrder
    /\ lastExec = NoExec
    /\ trades = <<>>
    /\ analyzer = [trades |-> 0, wins |-> 0]
    /\ equityCurve = <<>>
    /\ decision = Hold
    /\ report = NoReport
    /\ fills = <<>>
    /\ yearBars = 0
    /\ series = <<>>
    /\ script = <<strategy>>
    /\ outcomes = <<>>

\* notify_trade is called with any trade, open or closed, of any profit.
TANotify ==
    /\ pc = "analyzer"
    /\ Len(trades) < MaxNotes
    /\ \E isclosed \in BOOLEAN, pnl \in Pnls :
          /\ trades' = Append(trades, NotifiedTrade(isclosed, pnl))
          /\ analyzer' = NotifyTrade(analyzer, isclosed, pnl)
    /\ UNCHANGED <<strategy, pc, closes, open, cash, position, pending,
                   lastExec, equityCurve, decision, report>>
    /\ UNCHANGED <<fills, yearBars, series, script, outcomes>>

\* get_analysis is read and printed.
TAGetAnalysis ==
    /\ pc = "analyzer"
    /\ pc' = "done"
    /\ report' = PrintReport(analyzer, cash, SharpeAnalysis(equityCurve, 1))
    /\ UNCHANGED <<strategy, closes, open, cash, position, pending, lastExec,
                   trades, analyzer, equityCurve, decision>>
    /\ UNCHANGED <<fills, yearBars, series, script, outcomes>>

NextTA == TANotify \/ TAGetAnalysis

SpecTA == InitTA /\ [][NextTA]_vars

(* ------------------------------ signals ------------------------------- *)

\* The entry and the exit signal of each rule on the bars so far.
EntrySignal(s, cl) ==
    CASE s = "RSI" -> RSIBelow(cl, rsi_oversold)
      [] s = "BB"  -> CloseBelowBot(cl)
      [] s = "MA"  -> CrossOver(cl) > 0

ExitSignal(s, cl) ==
    CASE s = "RSI" -> RSIAbove(cl, rsi_overbought)
      [] s = "BB"  -> CloseAboveTop(cl)
      [] s = "MA"  -> CrossOver(cl) < 0

\* The bars a rule's warm-up takes: rsi_period moves, hence one close more;
\* period closes; the slow average and one bar of history.
WarmUp(s) ==
    CASE s = "RSI" -> rsi_period + 1
      [] s = "BB"  -> period
      [] s = "MA"  -> slow + 1

Ready == Len(closes) >= WarmUp(strategy)

OpenTrades == {i \in DOMAIN trades : trades[i].state = "Open"}
ClosedTrades == {i \in DOMAIN trades : trades[i].state = "Closed"}
WonTrades == {i \in ClosedTrades : trades[i].profitAndLoss > 0}

(* ------------------------------- claims ------------------------------- *)

\* The step of C1: the cash, the position and the trades change only when a Buy is
\* executed on a flat position or a CloseAll on an open one; a strategy
\* that is in position places no Buy, whatever the signals, and a strategy
\* that is flat places no CloseAll: such a bar leaves the cash, the position
\* and the trades as they are.
C1_Step ==
    /\ (cash' # cash \/ position' # position \/ trades' # trades)
          => \/ pending.side = "Buy" /\ position.size = 0
             \/ pending.side = "Sell" /\ position.size > 0
    /\ (pc = "strategy" /\ position.size > 0)
          => /\ pending'.side # "Buy"
             /\ decision'.call # "Buy"
             /\ UNCHANGED <<cash, position, trades>>
    /\ (pc = "strategy" /\ position.size = 0)
          => /\ pending'.side # "Sell"
             /\ decision'.call # "Close"
             /\ UNCHANGED <<cash, position, trades>>

C4_CashNeverNegative ==
    /\ cash >= 0
    /\ lastExec.status = "Margin"
          => /\ lastExec.side = "Buy"
             /\ lastExec.size * lastExec.price > lastExec.cashBefore
             /\ cash = lastExec.cashBefore
             /\ position.size = lastExec.sizeBefore
             /\ pc # "failed"
    /\ (lastExec.status = "Completed" /\ lastExec.side = "Buy")
          => /\ lastExec.size * lastExec.price <= lastExec.cashBefore
             /\ position.size = lastExec.sizeBefore + lastExec.size
    /\ (decision.call = "Buy" /\ decision.size = 0)
          => /\ pending = NoOrder
             /\ position = Flat

\* C4's case: a buy was refused for its cost, and the bar was completed.
C4_Witness ==
    /\ lastExec.status = "Margin"
    /\ pc = "next_bar"
    /\ Len(equityCurve) = lastExec.bar
    /\ cash = lastExec.cashBefore

\* C5: at most one trade is open, and one is open exactly when the
\* position is not flat; the open trade is the one the last executed Buy
\* opened, of the size and the price of the position; an executed CloseAll
\* closes it.
C5_OneOpenTrade ==
    /\ Cardinality(OpenTrades) <= 1
    /\ Cardinality(OpenTrades) = 1 <=> position.size > 0
    /\ position.size > 0
          => /\ OpenTrades = {Len(trades)}
             /\ trades[Len(trades)].size = position.size
             /\ trades[Len(trades)].entryPrice = position.price
    /\ (lastExec.status = "Completed" /\ lastExec.side = "Buy")
          => /\ trades[Len(trades)].state = "Open"
             /\ trades[Len(trades)].entryBar = lastExec.bar
    /\ (lastExec.status = "Completed" /\ lastExec.side = "Sell")
          => /\ trades[Len(trades)].state = "Closed"
             /\ trades[Len(trades)].exitBar = lastExec.bar
    /\ \A i \in ClosedTrades : trades[i].entryBar < trades[i].exitBar

\* C5's case: a second trade is open after a first one was closed.
C5_Witness ==
    /\ pc = "next_bar"
    /\ Len(trades) = 2
    /\ trades[1].state = "Closed"
    /\ trades[2].state = "Open"
    /\ position.size > 0

\* C6: on a bar on which the rule's indicators are ready, the strategy calls
\* buy exactly when it is flat and the entry signal holds, close exactly
\* when it is in position and the exit signal holds, and neither in every
\* other case.
C6_Decide ==
    (pc = "observe" /\ Ready)
       => /\ decision.call = "Buy"
                <=> (position.size = 0 /\ EntrySignal(strategy, closes))
          /\ decision.call = "Close"
                <=> (position.size > 0 /\ ExitSignal(strategy, closes))
          /\ decision.call = "Hold"
                <=> \/ position.size = 0 /\ ~EntrySignal(strategy, closes)
                    \/ position.size > 0 /\ ~ExitSignal(strategy, closes)
          /\ decision.call = "Hold" => pending = NoOrder
          /\ decision.call = "Close" => pending.side = "Sell"

\* C6's case: the exit signal holds while the strategy is flat, and it holds.
C6_Witness ==
    /\ pc = "observe"
    /\ Ready
    /\ position.size = 0
    /\ ExitSignal(strategy, closes)
    /\ decision = Hold

\* C7: on every bar before the warm-up of the rule is complete the strategy
\* holds: no order is placed, none was executed, the portfolio is the
\* starting cash.
C7_WarmUpHolds ==
    Len(closes) < WarmUp(strategy)
       => /\ decision = Hold
          /\ pending = NoOrder
          /\ lastExec = NoExec
          /\ trades = <<>>
          /\ cash = StartCash
          /\ position = Flat

\* C7's case: the price falls during the warm-up of the RSI rule (an RSI of
\* the one move, or an RSI read as 0, is below the oversold level) and the
\* strategy holds.
C7_Witness ==
    /\ strategy = "RSI"
    /\ pc = "observe"
    /\ Len(closes) = WarmUp("RSI") - 1
    /\ closes[Len(closes)] < closes[Len(closes) - 1]
    /\ decision = Hold
    /\ pending = NoOrder

\* C8: after any notifications the analyzer's trades is the number of
\* closed trades and its wins the number of closed trades of a positive
\* profit; 0 <= wins <= trades; the win rate of get_analysis, and the one
\* printed, is wins / trades when trades > 0 and 0 otherwise, within [0, 1].
C8_WinRate ==
    LET a == GetAnalysis(analyzer)
        r == a.win_rate
    IN  /\ a.total_trades = Cardinality(ClosedTrades)
        /\ a.wins = Cardinality(WonTrades)
        /\ 0 <= a.wins /\ a.wins <= a.total_trades
        /\ r.den > 0
        /\ a.total_trades > 0 => r.num * a.total_trades = a.wins * r.den
        /\ a.total_trades = 0 => r.num = 0
        /\ 0 <= r.num /\ r.num <= r.den
        /\ report.printed
              => /\ report.totalTrades = a.total_trades
                 /\ report.wins = a.wins
                 /\ report.winRate = r

\* C8's case: three trades were closed, two of them won, open trades were
\* notified as well, and the analysis was printed.
C8_Witness ==
    /\ report.printed
    /\ Cardinality(ClosedTrades) = 3
    /\ Cardinality(WonTrades) = 2
    /\ Cardinality(OpenTrades) >= 1
    /\ report.winRate = [num |-> 2, den |-> 3]

\* C9: at every bar boundary the equity curve holds one value for each bar
\* delivered, none before the bar is complete; the value of a bar is
\* cash + position.size * close of that bar; no value is negative.
C9_Equity ==
    /\ pc \in {"next_bar", "done"}
          => /\ Len(equityCurve) = Len(closes)
             /\ Len(closes) > 0
                   => equityCurve[Len(closes)]
                         = cash + position.size * closes[Len(closes)]
    /\ pc \in {"broker", "strategy", "observe", "failed"}
          => Len(equityCurve) = Len(closes) - 1
    /\ \A i \in DOMAIN equityCurve : equityCurve[i] >= 0

\* C9's case: a bar ends in position with a value that is not the cash, a
\* bar after a bar on which no order was executed.
C9_Witness ==
    /\ pc = "next_bar"
    /\ position.size > 0
    /\ lastExec.status = "None"
    /\ Len(equityCurve) = Len(closes)
    /\ equityCurve[Len(closes)] # cash
    /\ equityCurve[Len(closes)] # equityCurve[Len(closes) - 1]

\* C2: a filled Buy is filled on the bar of its decision, at that bar's
\* close P, with size floor(cash_before / P); afterwards
\* cash = cash_before - size * P >= 0 and the position is size at P.
C2_BuyFilledAtDecisionClose ==
    (lastExec.status = "Completed" /\ lastExec.side = "Buy")
       => LET P == lastExec.createdPrice
              S == lastExec.cashBefore \div P
          IN  /\ lastExec.bar = lastExec.createdBar
              /\ lastExec.price = P
              /\ lastExec.size = S
              /\ cash = lastExec.cashBefore - S * P
              /\ cash >= 0
              /\ position = [size |-> S, price |-> P]

\* C3: a filled CloseAll on a bar of close P adds position.size * P to the
\* cash, leaves the position flat and closes the one open trade with
\* exitPrice = P and profitAndLoss = (exitPrice - entryPrice) * size.
C3_CloseFilledAtClose ==
    (lastExec.status = "Completed" /\ lastExec.side = "Sell")
       => LET P == closes[lastExec.bar]
              t == trades[Len(trades)]
          IN  /\ cash = lastExec.cashBefore + lastExec.sizeBefore * P
              /\ position = Flat
              /\ OpenTrades = {}
              /\ t.state = "Closed"
              /\ t.exitBar = lastExec.bar
              /\ t.exitPrice = P
              /\ t.profitAndLoss = (t.exitPrice - t.entryPrice) * t.size

\* C10: every bar is handled once, in order: the decision of a bar comes
\* before the one order execution of that bar, the equity record after it;
\* the run ends with exactly one report, printed after the final bar.
C10_RunOrderAndReport ==
    /\ lastExec.status # "None" => lastExec.bar = lastExec.createdBar
    /\ pc \in {"next_bar", "done"} => Len(equityCurve) = Len(closes)
    /\ pc = "done" => pending = NoOrder
    /\ pc \in {"done", "failed"} => report.printed

(* ------------------------------- C11 ---------------------------------- *)

\* The run has ended: run_strategy printed its report, or cerebro.run()
\* raised.
RunEnded == pc \in {"done", "failed"}

\* The returns the printed Sharpe ratio is taken from.
ReportedReturns == YearReturns(YearValues(equityCurve, yearBars,
                                          Len(equityCurve)))

\* C11: a run that ends with no closed trade has ended without a failure,
\* with a win rate of 0 and with the Sharpe ratio printed as the value that
\* stands for "not available" (None); and whenever the returns are fewer
\* than 2 or have no deviation, the Sharpe ratio is printed as that value.
C11_NoTradeRunReports ==
    /\ (RunEnded /\ analyzer.trades = 0) =>
          /\ pc = "done"
          /\ report.printed
          /\ report.totalTrades = 0
          /\ report.winRate.num = 0
          /\ report.sharpeRatio = None
    /\ (pc = "done" /\ (Len(ReportedReturns) < 2
                        \/ ZeroDeviation(ReportedReturns))) =>
          report.sharpeRatio = None

(* ------------------- the script: several runs (C12) ------------------- *)

\* Bars of the price file when the script reads it for several runs.
MaxScriptBars == 4

\* The calls of run_strategy a script makes, one after the other: the
\* three of the source in their order, and a strategy run, another one
\* run and the first one run again.
Scripts == {<<"RSI", "BB", "MA">>}
               \cup {<<p[1], p[2], p[1]>> :
                        p \in {q \in Strategies \X Strategies : q[1] # q[2]}}

\* A broker that the next run takes over from the run before.
BrokerLeftOver == [cash |-> cash, position |-> position]

\* run_strategy builds a new Cerebro, with a new broker, and sets its cash.
BrokerAtStart == [cash |-> StartCash, position |-> Flat]

InitScript ==
    /\ script \in Scripts
    /\ strategy = script[1]
    /\ pc = "next_bar"
    /\ closes = <<>>
    /\ open = 0
    /\ cash = StartCash
    /\ position = Flat
    /\ pending = NoOrder
    /\ lastExec = NoExec
    /\ trades = <<>>
    /\ analyzer = [trades |-> 0, wins |-> 0]
    /\ equityCurve = <<>>
    /\ decision = Hold
    /\ report = NoReport
    /\ fills = <<>>
    /\ yearBars = 0
    /\ series = <<>>
    /\ outcomes = <<>>

\* The feed delivers the next bar of the price file.  The first run meets
\* the file's content; every later run reads the same file again.
ReadBar ==
    /\ pc = "next_bar"
    /\ LET n == Len(closes)
       IN  IF n < Len(series)
           THEN /\ open' = series[n + 1].open
                /\ closes' = Append(closes, series[n + 1].close)
                /\ series' = series
           ELSE /\ outcomes = <<>>
                /\ n < MaxScriptBars
                /\ \E o \in Prices, c \in Prices :
                      /\ open' = o
                      /\ closes' = Append(closes, c)
                      /\ series' = Append(series, [open |-> o, close |-> c])
    /\ pc' = IF /\ strategy = "RSI"
                /\ Len(closes') >= MinPeriod(strategy)
                /\ RSIDivisionByZero(closes')
             THEN "failed"
             ELSE "broker"
    /\ UNCHANGED <<strategy, cash, position, pending, lastExec, trades,
                   analyzer, equityCurve, decision, report>>
    /\ UNCHANGED <<fills, yearBars, script, outcomes>>

\* The price file is exhausted: cerebro.run() returns and run_strategy
\* prints the report of this run.
EndRun ==
    /\ pc = "next_bar"
    /\ Len(closes) >= 1
    /\ Len(closes) = Len(series)
    /\ pc' = "done"
    /\ \E bpy \in (IF yearBars = 0 THEN YearBars ELSE {yearBars}) :
          /\ yearBars' = bpy
          /\ report' = PrintReport(analyzer,
                                   GetValue(cash, position,
                                            closes[Len(closes)]),
                                   SharpeAnalysis(equityCurve, bpy))
    /\ outcomes' = Append(outcomes, report')
    /\ UNCHANGED <<strategy, closes, open, cash, position, pending, lastExec,
                   trades, analyzer, equityCurve, decision>>
    /\ UNCHANGED <<fills, series, script>>

\* The script calls run_strategy for its next strategy.
StartRun ==
    /\ pc = "done"
    /\ Len(outcomes) < Len(script)
    /\ strategy' = script[Len(outcomes) + 1]
    /\ pc' = "next_bar"
    /\ closes' = <<>>
    /\ open' = 0
    /\ cash' = BrokerAtStart.cash
    /\ position' = BrokerAtStart.position
    /\ pending' = NoOrder
    /\ lastExec' = NoExec
    /\ trades' = <<>>
    /\ analyzer' = [trades |-> 0, wins |-> 0]
    /\ equityCurve' = <<>>
    /\ decision' = Hold
    /\ report' = NoReport
    /\ fills' = <<>>
    /\ UNCHANGED <<yearBars, series, script, outcomes>>

NextScript ==
    ReadBar \/ BrokerNext \/ StrategyStep \/ Observe \/ EndRun \/ StartRun

SpecScript == InitScript /\ [][NextScript]_vars

\* A run is about to receive its first bar.
RunStarts == pc = "next_bar" /\ closes = <<>>

\* C12: the runs of one strategy over the same price file, with the same
\* parameters and starting cash, print identical reports, whatever was run
\* before them or between them; and every run starts from a fresh
\* portfolio: the starting cash, no position, no order, no trade, no
\* value recorded.
C12_RunsAreIndependent ==
    /\ \A i, j \in 1..Len(outcomes) :
          script[i] = script[j] => outcomes[i] = outcomes[j]
    /\ RunStarts =>
          /\ cash = StartCash
          /\ position = Flat
          /\ pending = NoOrder
          /\ trades = <<>>
          /\ fills = <<>>
          /\ analyzer = [trades |-> 0, wins |-> 0]
          /\ equityCurve = <<>>

\* A strategy has run and traded, a different strategy has run with a
\* different report, and the first strategy has run again.
C12_Witness ==
    /\ Len(outcomes) = 3
    /\ script[1] = script[3]
    /\ script[2] # script[1]
    /\ outcomes[2] # outcomes[1]
    /\ outcomes[1].finalValue # StartCash

(* ------------------------------- C13 ---------------------------------- *)

\* The fast average was below the slow one the last time the two differed
\* before the current bar, and is above it on the current bar.
CrossedAbove(cl) ==
    LET n == Len(cl)
    IN  /\ MADiff(cl, n) > 0
        /\ \E k \in slow..(n - 1) :
              /\ MADiff(cl, k) < 0
              /\ \A j \in (k + 1)..(n - 1) : MADiff(cl, j) = 0

\* The same, from above to below.
CrossedBelow(cl) ==
    LET n == Len(cl)
    IN  /\ MADiff(cl, n) < 0
        /\ \E k \in slow..(n - 1) :
              /\ MADiff(cl, k) > 0
              /\ \A j \in (k + 1)..(n - 1) : MADiff(cl, j) = 0

\* The crossover rule has just called buy on the current bar.
MAEntersNow == strategy = "MA" /\ pc = "observe" /\ decision.call = "Buy"

\* C13 as the specification states it: on every ready bar t the crossover
\* is +1 exactly when fast[t] > slow[t] and fast[t-1] <= slow[t-1], -1
\* exactly when fast[t] < slow[t] and fast[t-1] >= slow[t-1], and 0
\* otherwise; the crossover rule enters only on a bar of the first kind.
C13_CrossoverByPreviousBar ==
    (strategy = "MA" /\ Len(closes) >= MinPeriod("MA")) =>
        LET n == Len(closes)
            now == MADiff(closes, n)
            before == MADiff(closes, n - 1)
        IN  /\ CrossOver(closes) = (IF now > 0 /\ before <= 0 THEN 1
                                    ELSE IF now < 0 /\ before >= 0 THEN -1
                                    ELSE 0)
            /\ MAEntersNow => (now > 0 /\ before <= 0)

\* C13, amended: on every ready bar the crossover is +1 exactly when the
\* fast average is above the slow one and was below it the last time the
\* two differed, -1 exactly in the mirrored case, and 0 otherwise (so 0
\* too when the averages were equal and had last differed the same way, or
\* had never differed); the crossover rule enters only on a bar where the
\* crossover is +1, on which fast[t-1] <= slow[t-1], never on a later bar
\* where fast stays above slow.
C13_CrossoverByLastDifference ==
    (strategy = "MA" /\ Len(closes) >= MinPeriod("MA")) =>
        LET n == Len(closes)
        IN  /\ CrossOver(closes) = (IF CrossedAbove(closes) THEN 1
                                    ELSE IF CrossedBelow(closes) THEN -1
                                    ELSE 0)
            /\ MAEntersNow => /\ CrossedAbove(closes)
                              /\ MADiff(closes, n - 1) <= 0

\* The crossover rule enters on a bar that follows a bar of equal
\* averages: the fast average had been below before that.
C13_Witness ==
    /\ MAEntersNow
    /\ Len(closes) > MinPeriod("MA")
    /\ MADiff(closes, Len(closes) - 1) = 0
    /\ CrossOver(closes) = 1

(* ------------------------------- C14 ---------------------------------- *)

\* The completed orders of one side.
FillsOf(side) == {i \in DOMAIN fills : fills[i] = side}

\* C14: the completed orders of a run alternate Buy, Sell (the order of
\* close()), Buy, ..., the first being a Buy; when the run has ended, the
\* total_trades printed is the number of completed Sell orders; a trade
\* that is still open then was given no Sell, is counted neither in
\* total_trades nor in wins (both count closed trades only), and its
\* position is part of the final value printed: cash + size * last close.
C14_FillsAlternate ==
    /\ \A i \in DOMAIN fills :
          fills[i] = (IF i % 2 = 1 THEN "Buy" ELSE "Sell")
    /\ pc = "done" =>
          /\ report.totalTrades = Cardinality(FillsOf("Sell"))
          /\ report.totalTrades = Cardinality(ClosedTrades)
          /\ report.wins = Cardinality(WonTrades)
          /\ report.finalValue =
                cash + position.size * closes[Len(closes)]
          /\ HasOpenTrade(trades) =>
                /\ Cardinality(FillsOf("Buy")) = report.totalTrades + 1
                /\ Len(trades) = report.totalTrades + 1
                /\ position.size > 0
                /\ report.finalValue > cash

\* The run ends after a Buy, a Sell and a second Buy were completed: one
\* trade is counted, the second is open, at a profit that is in the final
\* value but not in wins.
C14_Witness ==
    /\ pc = "done"
    /\ fills = <<"Buy", "Sell", "Buy">>
    /\ HasOpenTrade(trades)
    /\ report.totalTrades = 1
    /\ report.wins = 0
    /\ closes[Len(closes)] > position.price
    /\ report.finalValue > cash

====
